---- MODULE Spec2Model ----
(***************************************************************************)
(* Dot Traffic (src/app.py): the /traffic routing handler, its Traffic log *)
(* and Projects store, and the deterministic text extraction it relies on. *)
(*                                                                         *)
(* Texts are real strings; the extraction functions are computed character *)
(* by character as the Python code (str.upper, str.strip, re.search with   *)
(* \b, \s+ and \d, substring tests) computes them.                         *)
(*                                                                         *)
(* The handler is a sequence of steps, one per external call (Record Store *)
(* read or write, oracle call).  StepSet gives the successors of one step; *)
(* Final runs a request to its response.  The sequential specifications    *)
(* take a whole request as one action (Traffic); the concurrent one        *)
(* interleaves the steps of two requests.                                  *)
(***************************************************************************)
EXTENDS Integers, Sequences, FiniteSets, TLC

\* ------------------------------------------------------------------ bounds

\* Largest number of Traffic log entries explored.
MaxLog == 2

\* ------------------------------------------------------------------ config

\* Python None, for values that are strings otherwise.
NONE == "~None~"

\* src/app.py:28
VALID_CLIENT_CODES ==
    <<"ONE", "ONS", "ONB", "SKY", "TOW", "FIS", "FST", "WKA", "HUN", "LAB", "EON", "OTH">>

\* src/app.py:31-55, in the dict's iteration (insertion) order
CLIENT_NAME_MAPPING ==
    << <<"one nz", "ONE">>, <<"one", "ONE">>, <<"ons", "ONS">>, <<"onb", "ONB">>,
       <<"simplification", "ONS">>, <<"one nz simplification", "ONS">>,
       <<"one nz - simplification", "ONS">>, <<"business", "ONB">>,
       <<"one nz business", "ONB">>, <<"one nz - business", "ONB">>,
       <<"sky", "SKY">>, <<"sky tv", "SKY">>, <<"tower", "TOW">>,
       <<"tower insurance", "TOW">>, <<"fisher funds", "FIS">>,
       <<"fisherfunds", "FIS">>, <<"firestop", "FST">>, <<"whakarongorau", "WKA">>,
       <<"healthline", "WKA">>, <<"labour", "LAB">>, <<"eon fibre", "EON">>,
       <<"eonfibre", "EON">>, <<"hunch", "HUN">> >>

\* ------------------------------------------------------------ python strings

LowerAlpha == "abcdefghijklmnopqrstuvwxyz"
UpperAlpha == "ABCDEFGHIJKLMNOPQRSTUVWXYZ"
Digits == "0123456789"

CharAt(s, i) == SubSeq(s, i, i)

InStr(c, alphabet) == \E i \in 1..Len(alphabet) : CharAt(alphabet, i) = c

IndexIn(c, alphabet) == CHOOSE i \in 1..Len(alphabet) : CharAt(alphabet, i) = c

UpperChar(c) == IF InStr(c, LowerAlpha) THEN CharAt(UpperAlpha, IndexIn(c, LowerAlpha)) ELSE c

LowerChar(c) == IF InStr(c, UpperAlpha) THEN CharAt(LowerAlpha, IndexIn(c, UpperAlpha)) ELSE c

RECURSIVE PyUpper(_)
PyUpper(s) == IF s = "" THEN "" ELSE UpperChar(CharAt(s, 1)) \o PyUpper(SubSeq(s, 2, Len(s)))

RECURSIVE PyLower(_)
PyLower(s) == IF s = "" THEN "" ELSE LowerChar(CharAt(s, 1)) \o PyLower(SubSeq(s, 2, Len(s)))

IsSpace(c) == c \in {" ", "\t", "\n", "\r"}

\* a regex word character: [A-Za-z0-9_]
IsWordChar(c) == InStr(c, LowerAlpha) \/ InStr(c, UpperAlpha) \/ InStr(c, Digits) \/ c = "_"

RECURSIVE PyLStrip(_)
PyLStrip(s) == IF s # "" /\ IsSpace(CharAt(s, 1)) THEN PyLStrip(SubSeq(s, 2, Len(s))) ELSE s

RECURSIVE PyRStrip(_)
PyRStrip(s) ==
    IF s # "" /\ IsSpace(CharAt(s, Len(s))) THEN PyRStrip(SubSeq(s, 1, Len(s) - 1)) ELSE s

PyStrip(s) == PyRStrip(PyLStrip(s))

PyStartsWith(s, p) == Len(s) >= Len(p) /\ SubSeq(s, 1, Len(p)) = p

\* Python's `p in s`
PyContains(s, p) == \E i \in 1..(Len(s) - Len(p) + 1) : SubSeq(s, i, i + Len(p) - 1) = p

\* Python truthiness of an optional string
Truthy(s) == s # NONE /\ s # ""

\* regex \b at the gap before position i (1..Len(s)+1)
WordBoundary(s, i) ==
    LET before == i > 1 /\ IsWordChar(CharAt(s, i - 1))
        after == i <= Len(s) /\ IsWordChar(CharAt(s, i))
    IN before # after

\* ------------------------------------------------------------- extraction

Range(seq) == {seq[i] : i \in DOMAIN seq}

InList(x, list) == \E i \in DOMAIN list : list[i] = x

MinOf(S) == CHOOSE i \in S : \A j \in S : i <= j

\* first position at or after j that holds no whitespace (Len(u) + 1 if none)
RECURSIVE SpaceRunEnd(_, _)
SpaceRunEnd(u, j) == IF j <= Len(u) /\ IsSpace(CharAt(u, j)) THEN SpaceRunEnd(u, j + 1) ELSE j

\* whether r'\b([A-Z]{3})\s+(\d{3})\b' matches with its first letter at position i
JobPatternAt(u, i) ==
    LET j == SpaceRunEnd(u, i + 3)
    IN /\ i + 2 <= Len(u)
       /\ WordBoundary(u, i)
       /\ \A k \in i..(i + 2) : InStr(CharAt(u, k), UpperAlpha)
       /\ j > i + 3
       /\ j + 2 <= Len(u)
       /\ \A k \in j..(j + 2) : InStr(CharAt(u, k), Digits)
       /\ WordBoundary(u, j + 3)

\* re.search: the leftmost match only; its prefix is then tested against the registry
extract_job_number(text) ==
    IF ~Truthy(text) THEN NONE
    ELSE LET u == PyUpper(text)
             hits == {i \in 1..Len(u) : JobPatternAt(u, i)}
         IN IF hits = {} THEN NONE
            ELSE LET i == MinOf(hits)
                     code == SubSeq(u, i, i + 2)
                     j == SpaceRunEnd(u, i + 3)
                     number == SubSeq(u, j, j + 2)
                 IN IF InList(code, VALID_CLIENT_CODES) THEN code \o " " \o number ELSE NONE

\* re.search(r'\b' + code + r'\b', u)
StandaloneWord(u, code) ==
    \E i \in 1..(Len(u) - Len(code) + 1) :
        /\ SubSeq(u, i, i + Len(code) - 1) = code
        /\ WordBoundary(u, i)
        /\ WordBoundary(u, i + Len(code))

\* Mutant of extract_client_code_from_content: the client names are tried before
\* the codes.
MutClientCodeNamesFirst(text) ==
    IF ~Truthy(text) THEN NONE
    ELSE LET text_lower == PyLower(text)
             text_upper == PyUpper(text)
             codes == {i \in DOMAIN VALID_CLIENT_CODES :
                          StandaloneWord(text_upper, VALID_CLIENT_CODES[i])}
             names == {i \in DOMAIN CLIENT_NAME_MAPPING :
                          PyContains(text_lower, CLIENT_NAME_MAPPING[i][1])}
         IN IF names # {} THEN CLIENT_NAME_MAPPING[MinOf(names)][2]
            ELSE IF codes # {} THEN VALID_CLIENT_CODES[MinOf(codes)]
            ELSE NONE

extract_client_code_from_content(text) ==
    IF ~Truthy(text) THEN NONE
    ELSE LET text_lower == PyLower(text)
             text_upper == PyUpper(text)
             codes == {i \in DOMAIN VALID_CLIENT_CODES :
                          StandaloneWord(text_upper, VALID_CLIENT_CODES[i])}
             names == {i \in DOMAIN CLIENT_NAME_MAPPING :
                          PyContains(text_lower, CLIENT_NAME_MAPPING[i][1])}
         IN IF codes # {} THEN VALID_CLIENT_CODES[MinOf(codes)]
            ELSE IF names # {} THEN CLIENT_NAME_MAPPING[MinOf(names)][2]
            ELSE NONE

\* job_number.split()[0] of a normalised job number
JobPrefix(job_number) == SubSeq(job_number, 1, 3)

\* src/app.py:397-402
AFFIRMATIVES ==
    {"YES", "YES.", "YES!", "YEP", "YUP", "YEAH", "CONFIRM", "CONFIRMED", "CORRECT",
     "THAT'S RIGHT", "THATS RIGHT", "THAT'S THE ONE", "THATS THE ONE", "THAT'S IT",
     "THATS IT", "BINGO", "SPOT ON", "PERFECT"}

\* src/app.py:406
TRIAGE_DIRECTIVES == {"TRIAGE", "TRIAGE.", "NEW JOB", "NEW"}

content_upper(content) == PyUpper(PyStrip(content))

is_yes(content) ==
    content_upper(content) \in AFFIRMATIVES \/ PyStartsWith(content_upper(content), "YES")

is_triage(content) == content_upper(content) \in TRIAGE_DIRECTIVES


\* ------------------------------------------------------------ Record Store

\* The Projects table the handler reads (one record per job number).  Only the
\* fields the decision depends on or copies are kept.
PROJECTS ==
    { [recordId |-> "recTOW023", jobNumber |-> "TOW 023", jobName |-> "Tower brochure",
       status |-> "In Progress"],
      [recordId |-> "recONE010", jobNumber |-> "ONE 010", jobName |-> "One NZ launch",
       status |-> "Completed"] }

\* get_project_by_job_number's None
NoProject == [recordId |-> NONE, jobNumber |-> NONE, jobName |-> NONE, status |-> NONE]

\* check_pending_clarify's None; a found record keeps its id and the fields read later
NoRecord == [id |-> 0, JobNumber |-> ""]

\* A Traffic record is [internetMessageId, conversationId, Route, Status, JobNumber];
\* its record id is its position in the log.  SenderEmail, Subject and CreatedAt are
\* written by the code and never read back, and are left out.
TrafficRecord(internet_message_id, conversation_id, route, status, job_number) ==
    [internetMessageId |-> IF Truthy(internet_message_id) THEN internet_message_id ELSE "",
     conversationId |-> IF Truthy(conversation_id) THEN conversation_id ELSE "",
     Route |-> route,
     Status |-> status,
     JobNumber |-> IF Truthy(job_number) THEN job_number ELSE ""]

\* Mutant of check_duplicate_email: a filter that never matches.
MutCheckDuplicateNeverMatches(lg, internet_message_id, ok) == {0}

\* The ids check_duplicate_email may return (0 is None).  The store gives the matching
\* records in no stated order, so records[0] is any of them.  ok = FALSE is a failed call.
check_duplicate_email(lg, internet_message_id, ok) ==
    LET records == {i \in DOMAIN lg : lg[i].internetMessageId = internet_message_id}
    IN IF ~Truthy(internet_message_id) \/ ~ok \/ records = {} THEN {0} ELSE records

\* Mutant of check_pending_clarify: the filter leaves out the conversation.
MutCheckPendingAnyConversation(lg, conversation_id, ok) ==
    LET records == {i \in DOMAIN lg : lg[i].Status = "pending"}
    IN IF ~Truthy(conversation_id) \/ ~ok \/ records = {} THEN {0} ELSE records

\* Mutant of check_pending_clarify: the filter leaves out the status.
MutCheckPendingAnyStatus(lg, conversation_id, ok) ==
    LET records == {i \in DOMAIN lg : lg[i].conversationId = conversation_id}
    IN IF ~Truthy(conversation_id) \/ ~ok \/ records = {} THEN {0} ELSE records

\* The ids check_pending_clarify may return (0 is None).
check_pending_clarify(lg, conversation_id, ok) ==
    LET records == {i \in DOMAIN lg : /\ lg[i].conversationId = conversation_id
                                      /\ lg[i].Status = "pending"}
    IN IF ~Truthy(conversation_id) \/ ~ok \/ records = {} THEN {0} ELSE records

\* The log after log_to_traffic_table: one record appended, or nothing on a failed call.
log_to_traffic_table(lg, ok, internet_message_id, conversation_id, route, status, job_number) ==
    IF ok
    THEN Append(lg, TrafficRecord(internet_message_id, conversation_id, route, status, job_number))
    ELSE lg

\* Mutant of update_traffic_record: the record is marked processed, whatever status
\* was asked for.
MutUpdateMarksProcessed(lg, ok, record_id, status, job_number) ==
    IF ~ok \/ record_id \notin DOMAIN lg THEN lg
    ELSE [lg EXCEPT ![record_id] = [@ EXCEPT !.Status = "processed"]]

\* The log after update_traffic_record(record_id, {'Status': status}) or, with a
\* job number, (record_id, {'Status': status, 'JobNumber': job_number}).
update_traffic_record(lg, ok, record_id, status, job_number) ==
    IF ~ok \/ record_id \notin DOMAIN lg THEN lg
    ELSE [lg EXCEPT ![record_id] =
            [@ EXCEPT !.Status = status,
                      !.JobNumber = IF job_number = NONE THEN @ ELSE job_number]]

get_project_by_job_number(job_number, ok) ==
    LET records == {p \in PROJECTS : p.jobNumber = job_number}
    IN IF ~ok \/ records = {} THEN NoProject ELSE CHOOSE p \in records : TRUE

\* The job numbers get_active_jobs_for_client lists: FIND(code, {Job Number}) = 1
\* and Status In Progress or On Hold.
get_active_jobs_for_client(client_code, ok) ==
    IF ~Truthy(client_code) \/ ~ok THEN {}
    ELSE {p.jobNumber : p \in {q \in PROJECTS : /\ PyStartsWith(q.jobNumber, client_code)
                                                /\ q.status \in {"In Progress", "On Hold"}}}

\* ---------------------------------------------------------------- requests

\* Request bodies: a JSON object with the fields the handler reads (a missing field
\* reads as ''), no body at all, or JSON that is not an object.
Kinds == {"object", "absent", "nonobject"}

Subjects == {"", "Re: TOW 999", "re: one 010", "Sky tv"}

Contents == {"", "Yes", "new job", "thanks", "tow 023", "TOW 999"}

MessageIds == {"", "m1"}

ConversationIds == {"", "c1"}

Texts == Subjects \cup Contents

\* The extraction results for the texts above, computed once.
JobNumberOf == [t \in Texts |-> extract_job_number(t)]

ClientCodeOf == [t \in Texts |-> extract_client_code_from_content(t)]

IsYes == [t \in Texts |-> is_yes(t)]

IsTriage == [t \in Texts |-> is_triage(t)]

\* extract_job_number(subject), and only if that is falsy extract_job_number(content)
JobFromMessage(subject, content) ==
    IF Truthy(JobNumberOf[subject]) THEN JobNumberOf[subject] ELSE JobNumberOf[content]

NoMessage ==
    [kind |-> "absent", emailContent |-> "", subjectLine |-> "", internetMessageId |-> "",
     conversationId |-> ""]

\* The duplicate check reads only the message id and the pending check only the
\* conversation id, so a body that leaves both empty exercises no path that a body
\* leaving one of them empty does not; such bodies are left out of the input set.
Messages ==
    {m \in [kind : {"object"}, emailContent : Contents, subjectLine : Subjects,
            internetMessageId : MessageIds, conversationId : ConversationIds] :
        m.internetMessageId # "" \/ m.conversationId # ""}
    \cup {[NoMessage EXCEPT !.kind = k] : k \in Kinds \ {"object"}}

\* What the oracle call can produce: an exception from the client, text that
\* json.loads rejects, or a routing object.
OracleRoutes == {"update", "clarify", "confirm"}

OracleJobs == {NONE, "TOW 023", "TOW 999"}

OracleOutcomes ==
    [kind : {"ok"}, route : OracleRoutes, confidence : {"high", "low"}, jobNumber : OracleJobs]
    \cup [kind : {"unavailable", "malformed"}, route : {NONE}, confidence : {NONE},
          jobNumber : {NONE}]

NoRouting ==
    [route |-> NONE, confidence |-> NONE, jobNumber |-> NONE, reason |-> NONE,
     projectRecordId |-> NONE, jobName |-> NONE, enriched |-> FALSE]

NoResponse ==
    [http |-> 0, route |-> NONE, confidence |-> NONE, jobNumber |-> NONE, reason |-> NONE,
     clientCode |-> NONE, projectRecordId |-> NONE, jobName |-> NONE,
     originalRoute |-> NONE, originalRecordId |-> 0, keys |-> {}]

\* What the handler tells the oracle about the job: the lines 'Extracted job number',
\* 'Job exists in system' and 'Client code' of the message it sends.
NoContext == [job_number |-> NONE, job_exists |-> FALSE, client_code |-> NONE]

OracleContext(job_number, project, client_code) ==
    [job_number |-> IF Truthy(job_number) THEN job_number ELSE "None found",
     job_exists |-> project # NoProject,
     client_code |-> IF Truthy(client_code) THEN client_code ELSE "Unknown"]

\* The keys copied from a matched project
ENRICH_KEYS ==
    {"jobName", "clientName", "currentRound", "currentStage", "withClient",
     "teamsChannelId", "projectRecordId"}

\* One request: its place in the handler, the handler's locals, its response, and a
\* record of the external calls it made (calls, in order, a project lookup named with
\* the place that made it; failed, those that failed),
\* of the log as it was on arrival (log0) and of whether a decision had already been
\* returned for its message identifier (seen).
IdleRequest ==
    [pc |-> "idle", msg |-> NoMessage, log0 |-> <<>>, seen |-> FALSE,
     pending_clarify |-> NoRecord, reply_job_number |-> NONE, job_number |-> NONE,
     project |-> NoProject, client_code |-> NONE, context |-> NoContext,
     oracle |-> NoRouting,
     routing |-> NoRouting, resp |-> NoResponse, calls |-> <<>>, failed |-> {}]

NewRequest(msg, lg, done) ==
    [IdleRequest EXCEPT !.pc = "validate", !.msg = msg, !.log0 = lg,
                        !.seen = Truthy(msg.internetMessageId) /\ msg.internetMessageId \in done]

Goto(rq, pc) == [rq EXCEPT !.pc = pc]

Called(rq, name, ok) ==
    [rq EXCEPT !.calls = Append(@, name), !.failed = IF ok THEN @ ELSE @ \cup {name}]

Respond(rq, resp) == [rq EXCEPT !.pc = "done", !.resp = resp]

\* ---------------------------------------------------------------- responses

ErrorResponse(http) == [NoResponse EXCEPT !.http = http, !.keys = {"error"}]

DuplicateResponse(existing, id) ==
    [NoResponse EXCEPT !.http = 200, !.route = "duplicate",
                       !.reason = "Email already processed",
                       !.originalRoute = existing.Route, !.originalRecordId = id,
                       !.keys = {"route", "reason", "originalRoute", "originalRecordId"}]

TriageResponse ==
    [NoResponse EXCEPT !.http = 200, !.route = "triage", !.confidence = "high",
                       !.reason = "User requested triage in clarify reply",
                       !.keys = {"route", "confidence", "jobNumber", "reason",
                                 "senderEmail", "senderName", "source"}]

UpdateResponse(job_number, project, reason) ==
    [NoResponse EXCEPT !.http = 200, !.route = "update", !.confidence = "high",
                       !.jobNumber = job_number, !.jobName = project.jobName,
                       !.clientCode = JobPrefix(job_number),
                       !.projectRecordId = project.recordId, !.reason = reason,
                       !.keys = {"route", "confidence", "jobNumber", "clientCode", "reason",
                                 "senderEmail", "senderName", "source"} \cup ENRICH_KEYS]

ClarifyResponse(reason) ==
    [NoResponse EXCEPT !.http = 200, !.route = "clarify", !.confidence = "low",
                       !.reason = reason,
                       !.keys = {"route", "confidence", "reason", "senderEmail",
                                 "senderName", "source", "clarifyEmail"}]

\* jsonify(routing) after routing['source'] and routing['clientCode'] are set
RoutingResponse(routing, client_code) ==
    [NoResponse EXCEPT !.http = 200, !.route = routing.route,
                       !.confidence = routing.confidence, !.jobNumber = routing.jobNumber,
                       !.reason = routing.reason, !.clientCode = client_code,
                       !.jobName = routing.jobName,
                       !.projectRecordId = routing.projectRecordId,
                       !.keys = {"route", "confidence", "jobNumber", "reason", "source",
                                 "clientCode"}
                                \cup (IF routing.enriched THEN ENRICH_KEYS ELSE {})]

\* routing[...] = project[...] for the seven enrichment keys
Enrich(routing, project) ==
    [routing EXCEPT !.jobName = project.jobName, !.projectRecordId = project.recordId,
                    !.enriched = TRUE]

\* the override of a suggested job that was not found
Override(routing) ==
    [routing EXCEPT !.route = "clarify", !.confidence = "low",
                    !.reason = "Matched job " \o routing.jobNumber \o " not found in system"]

\* Mutant of LogStatus: an `update` decision is logged as pending too.
MutLogStatusUpdatePending(route) ==
    IF route \in {"clarify", "confirm", "update"} THEN "pending" ELSE "processed"

\* status = 'pending' if route in ['clarify', 'confirm'] else 'processed'
LogStatus(route) == IF route \in {"clarify", "confirm"} THEN "pending" ELSE "processed"

\* ------------------------------------------------------------------- steps
\* Each step gives the set of <<log, request>> pairs it can lead to.  F is the set
\* of outcomes a Record Store call may have (TRUE: it succeeds), O the oracle's.

\* request.get_json() and the required field: get_json raises (or returns a value
\* without .get) for a missing or non-object body, which the generic handler turns
\* into a 500.
StepValidate(lg, rq) ==
    IF rq.msg.kind # "object" THEN {<<lg, Respond(rq, ErrorResponse(500))>>}
    ELSE IF ~Truthy(rq.msg.emailContent) THEN {<<lg, Respond(rq, ErrorResponse(400))>>}
    ELSE {<<lg, Goto(rq, "dedup")>>}

\* Mutant of StepDedup: the existing record is looked up but the request goes on.
MutStepDedupNoReturn(lg, rq, F) ==
    IF ~Truthy(rq.msg.internetMessageId) THEN {<<lg, Goto(rq, "pending")>>}
    ELSE {<<lg, Goto(Called(rq, "dedup", ok), "pending")>> : ok \in F}

\* Step 0
StepDedup(lg, rq, F) ==
    IF ~Truthy(rq.msg.internetMessageId) THEN {<<lg, Goto(rq, "pending")>>}
    ELSE UNION {
           { <<lg, IF id # 0 THEN Respond(Called(rq, "dedup", ok), DuplicateResponse(lg[id], id))
                   ELSE Goto(Called(rq, "dedup", ok), "pending")>>
             : id \in check_duplicate_email(lg, rq.msg.internetMessageId, ok) }
           : ok \in F }

\* Mutant of ReplyBranch: a reply that matches no branch is taken for a new-job
\* directive.
MutReplyBranchAmbiguousIsTriage(rq, pending) ==
    LET reply_job_number == JobFromMessage(rq.msg.subjectLine, rq.msg.emailContent)
        r == [rq EXCEPT !.pending_clarify = pending, !.reply_job_number = reply_job_number]
    IN IF IsTriage[rq.msg.emailContent] THEN Goto(r, "triage_log")
       ELSE IF Truthy(reply_job_number) THEN Goto(r, "reply_project")
       ELSE IF IsYes[rq.msg.emailContent]
            THEN IF Truthy(pending.JobNumber) THEN Goto(r, "yes_project")
                 ELSE Respond(r, ClarifyResponse("Confirmation received but no job was suggested"))
       ELSE Goto(r, "triage_log")

\* Mutant of ReplyBranch: the job number is tested before the new-job directive.
MutReplyBranchJobFirst(rq, pending) ==
    LET reply_job_number == JobFromMessage(rq.msg.subjectLine, rq.msg.emailContent)
        r == [rq EXCEPT !.pending_clarify = pending, !.reply_job_number = reply_job_number]
    IN IF Truthy(reply_job_number) THEN Goto(r, "reply_project")
       ELSE IF IsTriage[rq.msg.emailContent] THEN Goto(r, "triage_log")
       ELSE IF IsYes[rq.msg.emailContent]
            THEN IF Truthy(pending.JobNumber) THEN Goto(r, "yes_project")
                 ELSE Respond(r, ClarifyResponse("Confirmation received but no job was suggested"))
       ELSE Goto(r, "extract")

\* The branch of Step 1 a reply takes once the pending record is known.
ReplyBranch(rq, pending) ==
    LET reply_job_number == JobFromMessage(rq.msg.subjectLine, rq.msg.emailContent)
        r == [rq EXCEPT !.pending_clarify = pending, !.reply_job_number = reply_job_number]
    IN IF IsTriage[rq.msg.emailContent] THEN Goto(r, "triage_log")
       ELSE IF Truthy(reply_job_number) THEN Goto(r, "reply_project")
       ELSE IF IsYes[rq.msg.emailContent]
            THEN IF Truthy(pending.JobNumber) THEN Goto(r, "yes_project")
                 ELSE Respond(r, ClarifyResponse("Confirmation received but no job was suggested"))
       ELSE Goto(r, "extract")

\* Step 1: the pending lookup and the choice of branch
StepPending(lg, rq, F) ==
    IF ~Truthy(rq.msg.conversationId) THEN {<<lg, Goto(rq, "extract")>>}
    ELSE UNION {
           { <<lg, IF id # 0
                   THEN ReplyBranch(Called(rq, "pending", ok),
                                    [id |-> id, JobNumber |-> lg[id].JobNumber])
                   ELSE Goto(Called(rq, "pending", ok), "extract")>>
             : id \in check_pending_clarify(lg, rq.msg.conversationId, ok) }
           : ok \in F }

\* log_to_traffic_table for this request's message
LogCall(lg, rq, ok, route, status, job_number) ==
    log_to_traffic_table(lg, ok, rq.msg.internetMessageId, rq.msg.conversationId,
                         route, status, job_number)

StepTriageLog(lg, rq, F) ==
    { <<LogCall(lg, rq, ok, "triage", "processed", NONE),
        Goto(Called(rq, "create", ok), "triage_update")>> : ok \in F }

\* Mutant of StepTriageUpdate: resolving the pending record also clears its job number.
MutStepTriageUpdateClearsJob(lg, rq, F) ==
    { <<update_traffic_record(lg, ok, rq.pending_clarify.id, "resolved", ""),
        Respond(Called(rq, "update", ok), TriageResponse)>> : ok \in F }

StepTriageUpdate(lg, rq, F) ==
    { <<update_traffic_record(lg, ok, rq.pending_clarify.id, "resolved", NONE),
        Respond(Called(rq, "update", ok), TriageResponse)>> : ok \in F }

\* Mutant of StepReplyProject: a reply whose job number is not found falls through to
\* Step 2 and the oracle.
MutStepReplyProjectFallsThrough(lg, rq, F) ==
    { LET project == get_project_by_job_number(rq.reply_job_number, ok)
          r == [Called(rq, "project_reply", ok) EXCEPT !.project = project]
      IN <<lg, IF project # NoProject THEN Goto(r, "reply_log") ELSE Goto(r, "extract")>>
      : ok \in F }

StepReplyProject(lg, rq, F) ==
    { LET project == get_project_by_job_number(rq.reply_job_number, ok)
          r == [Called(rq, "project_reply", ok) EXCEPT !.project = project]
      IN <<lg, IF project # NoProject THEN Goto(r, "reply_log")
               ELSE Respond(r, ClarifyResponse("Job " \o rq.reply_job_number
                                               \o " not found in system"))>>
      : ok \in F }

StepReplyLog(lg, rq, F) ==
    { <<LogCall(lg, rq, ok, "update", "processed", rq.reply_job_number),
        Goto(Called(rq, "create", ok), "reply_update")>> : ok \in F }

\* Mutant of StepReplyUpdate: the pending record is resolved without its job number
\* being set.
MutStepReplyUpdateKeepsJob(lg, rq, F) ==
    { <<update_traffic_record(lg, ok, rq.pending_clarify.id, "resolved", NONE),
        Respond(Called(rq, "update", ok),
                UpdateResponse(rq.reply_job_number, rq.project,
                               "Job number provided in clarify reply"))>> : ok \in F }

StepReplyUpdate(lg, rq, F) ==
    { <<update_traffic_record(lg, ok, rq.pending_clarify.id, "resolved", rq.reply_job_number),
        Respond(Called(rq, "update", ok),
                UpdateResponse(rq.reply_job_number, rq.project,
                               "Job number provided in clarify reply"))>> : ok \in F }

StepYesProject(lg, rq, F) ==
    { LET project == get_project_by_job_number(rq.pending_clarify.JobNumber, ok)
          r == [Called(rq, "project_yes", ok) EXCEPT !.project = project]
      IN <<lg, IF project # NoProject THEN Goto(r, "yes_log")
               ELSE Respond(r, ClarifyResponse("Confirmation received but no job was suggested"))>>
      : ok \in F }

StepYesLog(lg, rq, F) ==
    { <<LogCall(lg, rq, ok, "update", "processed", rq.pending_clarify.JobNumber),
        Goto(Called(rq, "create", ok), "yes_update")>> : ok \in F }

StepYesUpdate(lg, rq, F) ==
    { <<update_traffic_record(lg, ok, rq.pending_clarify.id, "resolved", NONE),
        Respond(Called(rq, "update", ok),
                UpdateResponse(rq.pending_clarify.JobNumber, rq.project,
                               "User confirmed suggested job"))>> : ok \in F }

\* Step 3's client code: the extracted job number's prefix, else the subject's, else
\* the body's client code
ClientCode(job_number, subject, content) ==
    IF Truthy(job_number) THEN JobPrefix(job_number)
    ELSE IF Truthy(ClientCodeOf[subject]) THEN ClientCodeOf[subject]
         ELSE ClientCodeOf[content]

\* Step 2, and Step 3's client code
StepExtract(lg, rq, F) ==
    LET job_number == JobFromMessage(rq.msg.subjectLine, rq.msg.emailContent)
        client_code == ClientCode(job_number, rq.msg.subjectLine, rq.msg.emailContent)
        r == [rq EXCEPT !.job_number = job_number, !.client_code = client_code]
    IN IF ~Truthy(job_number) THEN {<<lg, Goto(r, "active_jobs")>>}
       ELSE { <<lg, Goto([Called(r, "project_extract", ok) EXCEPT
                              !.project = get_project_by_job_number(job_number, ok)],
                         "active_jobs")>> : ok \in F }

\* Step 3: the active jobs go into the oracle's context only
StepActiveJobs(lg, rq, F) ==
    IF ~Truthy(rq.client_code) THEN {<<lg, Goto(rq, "oracle")>>}
    ELSE { <<lg, Goto(Called(rq, "active_jobs", ok), "oracle")>> : ok \in F }

\* Mutant of AfterOracle: the oracle's job number is looked up even when it is the one
\* Step 2 has looked up.
MutAfterOracleLooksUpAgain(rq, routing) ==
    IF Truthy(routing.jobNumber)
    THEN Goto([rq EXCEPT !.routing = routing], "reconcile")
    ELSE Goto([rq EXCEPT !.routing = routing], "log")

\* Mutant of AfterOracle: a project found in Step 2 enriches the decision whatever job
\* number the oracle returned.
MutAfterOracleEnrichesAnyJob(rq, routing) ==
    IF rq.project # NoProject
    THEN Goto([rq EXCEPT !.routing = Enrich(routing, rq.project)], "log")
    ELSE IF Truthy(routing.jobNumber) /\ routing.jobNumber # rq.job_number
         THEN Goto([rq EXCEPT !.routing = routing], "reconcile")
         ELSE Goto([rq EXCEPT !.routing = routing], "log")

\* What Step 5 does with the routing object before any second lookup
AfterOracle(rq, routing) ==
    IF rq.project # NoProject /\ routing.jobNumber = rq.job_number
    THEN Goto([rq EXCEPT !.routing = Enrich(routing, rq.project)], "log")
    ELSE IF Truthy(routing.jobNumber) /\ routing.jobNumber # rq.job_number
         THEN Goto([rq EXCEPT !.routing = routing], "reconcile")
         ELSE Goto([rq EXCEPT !.routing = routing], "log")

\* Mutant of StepOracle: the oracle is told that an extracted job number exists
\* without regard to the Step 2 lookup.
MutStepOracleJobAlwaysExists(lg, rq, O) ==
    { LET r == [Called(rq, "oracle", o.kind = "ok") EXCEPT
                    !.context = [OracleContext(rq.job_number, rq.project, rq.client_code)
                                    EXCEPT !.job_exists = Truthy(rq.job_number)],
                    !.oracle =
                    [NoRouting EXCEPT !.route = o.route, !.confidence = o.confidence,
                                      !.jobNumber = o.jobNumber, !.reason = "oracle"]]
      IN <<lg, IF o.kind = "ok" THEN AfterOracle(r, r.oracle)
               ELSE Respond(r, ErrorResponse(500))>>
      : o \in O }

\* Mutant of StepOracle: a failed classification is logged before the error is returned.
MutStepOracleLogsFailure(lg, rq, O) ==
    { LET r == [Called(rq, "oracle", o.kind = "ok") EXCEPT
                    !.context = OracleContext(rq.job_number, rq.project, rq.client_code),
                    !.oracle =
                    [NoRouting EXCEPT !.route = o.route, !.confidence = o.confidence,
                                      !.jobNumber = o.jobNumber, !.reason = "oracle"]]
      IN IF o.kind = "ok" THEN <<lg, AfterOracle(r, r.oracle)>>
         ELSE <<LogCall(lg, r, TRUE, "error", "processed", NONE),
                Respond(r, ErrorResponse(500))>>
      : o \in O }

\* Step 4: the oracle call, json.loads, and the two exception handlers
StepOracle(lg, rq, O) ==
    { LET r == [Called(rq, "oracle", o.kind = "ok") EXCEPT
                    !.context = OracleContext(rq.job_number, rq.project, rq.client_code),
                    !.oracle =
                    [NoRouting EXCEPT !.route = o.route, !.confidence = o.confidence,
                                      !.jobNumber = o.jobNumber, !.reason = "oracle"]]
      IN <<lg, IF o.kind = "ok" THEN AfterOracle(r, r.oracle)
               ELSE Respond(r, ErrorResponse(500))>>
      : o \in O }

\* Step 5: the oracle picked another job number
StepReconcile(lg, rq, F) ==
    { LET matched_project == get_project_by_job_number(rq.routing.jobNumber, ok)
          r == Called(rq, "project_reconcile", ok)
      IN <<lg, Goto([r EXCEPT !.routing = IF matched_project # NoProject
                                           THEN Enrich(rq.routing, matched_project)
                                           ELSE Override(rq.routing)], "log")>>
      : ok \in F }

\* Mutant of StepLog: a failed log write is not caught and fails the request.
MutStepLogRaises(lg, rq, F) ==
    { <<LogCall(lg, rq, ok, rq.routing.route, LogStatus(rq.routing.route),
                rq.routing.jobNumber),
        Respond(Called(rq, "create", ok),
                IF ok THEN RoutingResponse(rq.routing, rq.client_code)
                ELSE ErrorResponse(500))>>
      : ok \in F }

\* Step 6
StepLog(lg, rq, F) ==
    { <<LogCall(lg, rq, ok, rq.routing.route, LogStatus(rq.routing.route),
                rq.routing.jobNumber),
        Respond(Called(rq, "create", ok), RoutingResponse(rq.routing, rq.client_code))>>
      : ok \in F }

StepSet(lg, rq, F, O) ==
    CASE rq.pc = "validate" -> StepValidate(lg, rq)
      [] rq.pc = "dedup" -> StepDedup(lg, rq, F)
      [] rq.pc = "pending" -> StepPending(lg, rq, F)
      [] rq.pc = "triage_log" -> StepTriageLog(lg, rq, F)
      [] rq.pc = "triage_update" -> StepTriageUpdate(lg, rq, F)
      [] rq.pc = "reply_project" -> StepReplyProject(lg, rq, F)
      [] rq.pc = "reply_log" -> StepReplyLog(lg, rq, F)
      [] rq.pc = "reply_update" -> StepReplyUpdate(lg, rq, F)
      [] rq.pc = "yes_project" -> StepYesProject(lg, rq, F)
      [] rq.pc = "yes_log" -> StepYesLog(lg, rq, F)
      [] rq.pc = "yes_update" -> StepYesUpdate(lg, rq, F)
      [] rq.pc = "extract" -> StepExtract(lg, rq, F)
      [] rq.pc = "active_jobs" -> StepActiveJobs(lg, rq, F)
      [] rq.pc = "oracle" -> StepOracle(lg, rq, O)
      [] rq.pc = "reconcile" -> StepReconcile(lg, rq, F)
      [] rq.pc = "log" -> StepLog(lg, rq, F)
      [] OTHER -> {}

\* Every <<log, request>> a request can end in when it runs alone from <<lg, rq>>.
RECURSIVE Final(_, _, _, _)
Final(lg, rq, F, O) ==
    IF rq.pc = "done" THEN {<<lg, rq>>}
    ELSE UNION {Final(s[1], s[2], F, O) : s \in StepSet(lg, rq, F, O)}

\* ------------------------------------------------------------------- state

VARIABLES
    log,        \* the Traffic table: a sequence of Traffic records
    req,        \* the requests being handled, by slot
    answered,   \* message identifiers for which a routing decision has been returned
    raced,      \* message identifiers two requests carried at the same time
    words,      \* the words of the text handed to the extraction functions
    extracted   \* that text and what the extraction functions returned for it

vars == <<log, req, answered, raced, words, extracted>>

\* The variables of the extraction functions' own specification.
extraction == <<words, extracted>>

NotExtracted == [text |-> "", job_number |-> NONE, client_code |-> NONE]

Slots == {1, 2}

Init ==
    /\ log = <<>>
    /\ req = [s \in Slots |-> IdleRequest]
    /\ answered = {}
    /\ raced = {}
    /\ words = <<>>
    /\ extracted = NotExtracted

\* answered once the request rq has responded
Answered(done, rq) ==
    IF rq.pc = "done" /\ rq.resp.http = 200 /\ Truthy(rq.msg.internetMessageId)
    THEN done \cup {rq.msg.internetMessageId}
    ELSE done

\* One /traffic request handled from arrival to response with no other request in
\* between.
Traffic(msg, F, O) ==
    /\ \A s \in Slots : req[s].pc = "idle"
    /\ \E fin \in Final(log, NewRequest(msg, log, answered), F, O) :
          /\ Len(fin[1]) <= MaxLog
          /\ log' = fin[1]
          /\ req' = [req EXCEPT ![1] = fin[2]]
          /\ answered' = Answered(answered, fin[2])
          /\ UNCHANGED raced
    /\ UNCHANGED extraction

\* The response of slot s has been delivered.
Return(s) ==
    /\ req[s].pc = "done"
    /\ req' = [req EXCEPT ![s] = IdleRequest]
    /\ UNCHANGED <<log, answered, raced>>
    /\ UNCHANGED extraction

\* Sequential requests, reliable store.
Next ==
    \/ \E msg \in Messages : Traffic(msg, {TRUE}, OracleOutcomes)
    \/ \E s \in Slots : Return(s)

Spec == Init /\ [][Next]_vars

\* ---------------------------------------------------------- concurrent requests

\* The messages and oracle outcomes of the concurrent specification: deliveries and
\* replies on one conversation.
ConcMessages ==
    [kind : {"object"}, emailContent : {"Yes", "tow 023", "thanks"},
     subjectLine : {""}, internetMessageId : {"m1", "m2"},
     conversationId : {"c1"}]

ConcOracleOutcomes ==
    {o \in OracleOutcomes : \/ o.kind = "unavailable"
                            \/ o.kind = "ok" /\ o.confidence = "high"
                               /\ o.route \in {"update", "clarify"}
                               /\ o.jobNumber \in {NONE, "TOW 023"}}

InFlight(s) == req[s].pc \notin {"idle", "done"}

\* A request arrives at slot s; nothing of it has run yet.
Receive(s, msg) ==
    /\ req[s].pc = "idle"
    /\ Len(log) + Cardinality({q \in Slots : InFlight(q)}) < MaxLog
    /\ req' = [req EXCEPT ![s] = NewRequest(msg, log, answered)]
    /\ raced' = IF \E q \in Slots \ {s} : /\ InFlight(q)
                                         /\ req[q].msg.internetMessageId = msg.internetMessageId
                THEN raced \cup {msg.internetMessageId}
                ELSE raced
    /\ UNCHANGED <<log, answered>>
    /\ UNCHANGED extraction

\* The request at slot s runs up to and including its next external call.
Step(s, F, O) ==
    /\ InFlight(s)
    /\ \E nxt \in StepSet(log, req[s], F, O) :
          /\ log' = nxt[1]
          /\ req' = [req EXCEPT ![s] = nxt[2]]
          /\ answered' = Answered(answered, nxt[2])
    /\ UNCHANGED raced
    /\ UNCHANGED extraction

\* Requests interleaved at their external calls, reliable store.
NextConc ==
    \/ \E s \in Slots, msg \in ConcMessages : Receive(s, msg)
    \/ \E s \in Slots : Step(s, {TRUE}, ConcOracleOutcomes)
    \/ \E s \in Slots : Return(s)

SpecConc == Init /\ [][NextConc]_vars

\* The messages and oracle outcomes of the specification of concurrent replies: a
\* message that opens a clarification on conversation c1 and replies to it that name
\* one job, name another, or ask for a new job.  They carry no message identifier,
\* so none is absorbed as a duplicate.
ReplyMessages ==
    [kind : {"object"}, emailContent : {"thanks", "tow 023", "new job"},
     subjectLine : {"", "re: one 010"}, internetMessageId : {""},
     conversationId : {"c1"}]

ReplyOracleOutcomes ==
    {o \in OracleOutcomes : /\ o.kind = "ok" /\ o.route = "clarify" /\ o.confidence = "low"
                            /\ o.jobNumber = NONE}

\* A reply arrives at slot s.  The log may hold one entry more than in the other
\* specifications: the pending entry and one entry for each of MaxLog replies.
ReceiveReply(s, msg) ==
    /\ req[s].pc = "idle"
    /\ Len(log) + Cardinality({q \in Slots : InFlight(q)}) < MaxLog + 1
    /\ req' = [req EXCEPT ![s] = NewRequest(msg, log, answered)]
    /\ UNCHANGED <<log, answered, raced>>
    /\ UNCHANGED extraction

\* Replies interleaved at their external calls, reliable store.
NextReplies ==
    \/ \E s \in Slots, msg \in ReplyMessages : ReceiveReply(s, msg)
    \/ \E s \in Slots : Step(s, {TRUE}, ReplyOracleOutcomes)
    \/ \E s \in Slots : Return(s)

SpecReplies == Init /\ [][NextReplies]_vars

\* The messages and oracle outcomes of the specification of one conversation handled
\* message by message: messages that open clarifications on c1 (with no job, with
\* a job that exists, and, through the override, with a job that does not) and the
\* replies to them.  They carry no message identifier.
ThreadMessages ==
    [kind : {"object"}, emailContent : {"thanks", "Yes", "new job", "tow 023"},
     subjectLine : {""}, internetMessageId : {""}, conversationId : {"c1"}]

ThreadOracleOutcomes ==
    {o \in OracleOutcomes :
        /\ o.kind = "ok"
        /\ \/ o.route = "clarify" /\ o.confidence = "low" /\ o.jobNumber \in {NONE, "TOW 023"}
           \/ o.route = "update" /\ o.confidence = "high" /\ o.jobNumber = "TOW 999"}

\* One /traffic request of the conversation handled from arrival to response.  The
\* log may hold one entry more than in Traffic: two clarifications and the entry of
\* a reply.
Exchange(msg, F, O) ==
    /\ \A s \in Slots : req[s].pc = "idle"
    /\ \E fin \in Final(log, NewRequest(msg, log, answered), F, O) :
          /\ Len(fin[1]) <= MaxLog + 1
          /\ log' = fin[1]
          /\ req' = [req EXCEPT ![1] = fin[2]]
          /\ answered' = Answered(answered, fin[2])
          /\ UNCHANGED raced
    /\ UNCHANGED extraction

\* One conversation, sequential requests, reliable store.
NextThread ==
    \/ \E msg \in ThreadMessages : Exchange(msg, {TRUE}, ThreadOracleOutcomes)
    \/ \E s \in Slots : Return(s)

SpecThread == Init /\ [][NextThread]_vars

\* The messages and oracle outcomes of the specification with store failures.
FaultyMessages ==
    [kind : {"object"}, emailContent : {"Yes", "new job", "thanks", "tow 023"},
     subjectLine : {"", "Re: TOW 999"}, internetMessageId : {"m1"},
     conversationId : {"c1"}]

FaultyOracleOutcomes ==
    {o \in OracleOutcomes : \/ o.kind = "unavailable"
                            \/ o.kind = "ok" /\ o.confidence = "high"
                               /\ o.route \in {"update", "clarify"}}

\* Sequential requests, any Record Store call may fail.
NextFaulty ==
    \/ \E msg \in FaultyMessages : Traffic(msg, BOOLEAN, FaultyOracleOutcomes)
    \/ \E s \in Slots : Return(s)

SpecFaulty == Init /\ [][NextFaulty]_vars

\* ------------------------------------------------------ the extraction functions

\* Largest number of words in a text handed to the extraction functions.
MaxWords == 3

\* Words the texts are made of: job-number patterns with a valid and with an invalid
\* prefix, in either case and with more than one blank; a number too long to match;
\* a bare code and a bare number (which make a job number when adjacent); aliases of
\* CLIENT_NAME_MAPPING, one of them only as part of a longer word.
Words == {"xyz 111", "tow 023", "ONE  010", "TOW 0234", "SKY", "123", "tower",
          "business", "phone"}

\* ' '.join(ws)
RECURSIVE Join(_)
Join(ws) ==
    IF ws = <<>> THEN ""
    ELSE IF Len(ws) = 1 THEN ws[1]
    ELSE ws[1] \o " " \o Join(Tail(ws))

\* One more word is added to the text and both functions are applied to it.
Extract(w) ==
    /\ Len(words) < MaxWords
    /\ words' = Append(words, w)
    /\ extracted' = [text |-> Join(words'),
                     job_number |-> extract_job_number(Join(words')),
                     client_code |-> extract_client_code_from_content(Join(words'))]
    /\ UNCHANGED <<log, req, answered, raced>>

NextExtract == \E w \in Words : Extract(w)

SpecExtract == Init /\ [][NextExtract]_vars

\* ------------------------------------------------------------------ claims

Responded(s) == req[s].pc = "done"

\* the request at slot s passed the required-field check
Valid(s) == req[s].msg.kind = "object" /\ Truthy(req[s].msg.emailContent)

CountMessageId(lg, m) == Cardinality({i \in DOMAIN lg : lg[i].internetMessageId = m})

CountCalls(rq, name) == Cardinality({i \in DOMAIN rq.calls : rq.calls[i] = name})

ProjectJobs == {p.jobNumber : p \in PROJECTS}

PendingOn(lg, c) == {i \in DOMAIN lg : lg[i].conversationId = c /\ lg[i].Status = "pending"}

\* C1: once a request carrying a non-empty message identifier M has returned a routing
\* decision, a later request carrying M that returns a decision returns `duplicate`
\* and leaves the number of log entries with identifier M unchanged.
C1_SecondIsDuplicate ==
    \A s \in Slots :
        (Responded(s) /\ req[s].seen /\ req[s].resp.http = 200)
        => /\ req[s].resp.route = "duplicate"
           /\ CountMessageId(log, req[s].msg.internetMessageId)
                = CountMessageId(req[s].log0, req[s].msg.internetMessageId)

\* C2 as stated: in every reachable state, concurrent requests included, no two log
\* entries carry the same (non-empty) message identifier.
C2_OneEntryPerMessageId ==
    \A i, j \in DOMAIN log :
        (i # j /\ Truthy(log[i].internetMessageId))
        => log[i].internetMessageId # log[j].internetMessageId

\* C2 amended: a non-empty message identifier that no two requests carried at the
\* same time has at most one log entry.
C2_OneEntryUnlessRaced ==
    \A i, j \in DOMAIN log :
        (i # j /\ Truthy(log[i].internetMessageId) /\ log[i].internetMessageId \notin raced)
        => log[i].internetMessageId # log[j].internetMessageId

\* a second delivery of a logged message, not overlapping the first, was answered
\* `duplicate`, and a race on another identifier has happened
C2_Witness ==
    \E s \in Slots :
        /\ Responded(s)
        /\ req[s].resp.route = "duplicate"
        /\ req[s].msg.internetMessageId \notin raced
        /\ CountMessageId(log, req[s].msg.internetMessageId) = 1
        /\ raced # {}

\* C3: no conversation has two log entries with status `pending`.
C3_OnePendingPerConversation ==
    \A i, j \in DOMAIN log :
        (i # j /\ Truthy(log[i].conversationId)
         /\ log[i].Status = "pending" /\ log[j].Status = "pending")
        => log[i].conversationId # log[j].conversationId

\* C4: a request that returns a decision other than `duplicate` has called
\* log_to_traffic_table, and its (non-empty) message identifier then has exactly one
\* log entry.
C4_LoggedBeforeReturn ==
    \A s \in Slots :
        (Responded(s) /\ req[s].resp.http = 200 /\ req[s].resp.route # "duplicate")
        => /\ CountCalls(req[s], "create") = 1
           /\ Truthy(req[s].msg.internetMessageId)
                => CountMessageId(log, req[s].msg.internetMessageId) = 1

\* C5: a request (that passes the required-field check) whose message identifier is
\* already in the log returns `duplicate` with that entry's route and record id,
\* leaves the log as it was, and makes the dedup lookup and no other external call.
C5_DuplicateAbsorbed ==
    \A s \in Slots :
        \A i \in DOMAIN req[s].log0 :
            (/\ Responded(s) /\ Valid(s)
             /\ Truthy(req[s].msg.internetMessageId)
             /\ req[s].log0[i].internetMessageId = req[s].msg.internetMessageId)
            => /\ req[s].resp.http = 200
               /\ req[s].resp.route = "duplicate"
               /\ req[s].resp.originalRoute = req[s].log0[i].Route
               /\ req[s].resp.originalRecordId = i
               /\ log = req[s].log0
               /\ req[s].calls = <<"dedup">>

\* a duplicate "Yes" (or job number, or new-job) reply on a conversation with a
\* pending entry has been absorbed
C5_Witness ==
    \E s \in Slots :
        /\ Responded(s) /\ req[s].resp.route = "duplicate"
        /\ req[s].msg.emailContent \in {"Yes", "tow 023", "new job"}
        /\ PendingOn(log, req[s].msg.conversationId) # {}

\* C6: on a conversation whose one pending entry stores a job number J that exists in
\* Projects, a non-duplicate reply with body "Yes", whatever its subject, returns
\* `update` with high confidence and job J, resolves the pending entry and logs one
\* `processed` `update` entry for J.
C6_YesConfirms ==
    \A s \in Slots :
        \A i \in DOMAIN req[s].log0 :
            (/\ Responded(s)
             /\ req[s].msg.emailContent = "Yes"
             /\ req[s].resp.http = 200 /\ req[s].resp.route # "duplicate"
             /\ Truthy(req[s].msg.conversationId)
             /\ PendingOn(req[s].log0, req[s].msg.conversationId) = {i}
             /\ req[s].log0[i].JobNumber \in ProjectJobs)
            => /\ req[s].resp.route = "update"
               /\ req[s].resp.confidence = "high"
               /\ req[s].resp.jobNumber = req[s].log0[i].JobNumber
               /\ Len(log) = Len(req[s].log0) + 1
               /\ log[i].Status = "resolved"
               /\ log[Len(log)] = TrafficRecord(req[s].msg.internetMessageId,
                                                req[s].msg.conversationId, "update",
                                                "processed", req[s].log0[i].JobNumber)

\* C7: when the oracle's suggestion carries a job number that is not in Projects, the
\* decision returned is `clarify` with confidence `low`.
C7_OverrideAlwaysWins ==
    \A s \in Slots :
        (/\ Responded(s)
         /\ "oracle" \in Range(req[s].calls) /\ "oracle" \notin req[s].failed
         /\ Truthy(req[s].oracle.jobNumber)
         /\ req[s].oracle.jobNumber \notin ProjectJobs)
        => /\ req[s].resp.route = "clarify"
           /\ req[s].resp.confidence = "low"

\* C8: a request with no emailContent, no body or a body that is no JSON object is
\* answered 400 with no external call and the log as it was.
C8_MissingContentRejected ==
    \A s \in Slots :
        (Responded(s) /\ ~Valid(s))
        => /\ req[s].resp.http = 400
           /\ req[s].calls = <<>>
           /\ log = req[s].log0

\* C9: when the oracle call fails or its text is not parseable, the request ends in a
\* server error after exactly one oracle call, the log is as it was on arrival, and
\* the message identifier has no log entry (a redelivery is no duplicate).
C9_OracleFailureLeavesLog ==
    \A s \in Slots :
        (Responded(s) /\ "oracle" \in req[s].failed)
        => /\ req[s].resp.http = 500
           /\ CountCalls(req[s], "oracle") = 1
           /\ log = req[s].log0
           /\ Truthy(req[s].msg.internetMessageId)
                => CountMessageId(log, req[s].msg.internetMessageId) = 0

\* the oracle failed on a reply that fell through Step 1 of a conversation with a
\* pending entry
C9_Witness ==
    \E s \in Slots :
        /\ Responded(s) /\ "oracle" \in req[s].failed
        /\ req[s].pending_clarify # NoRecord
        /\ Truthy(req[s].msg.internetMessageId)
        /\ PendingOn(log, req[s].msg.conversationId) # {}

\* C10: with non-empty emailContent and no oracle failure, a request returns a routing
\* decision whichever Record Store calls fail; a failed dedup lookup reads as no
\* duplicate, a failed pending lookup as no pending clarification, a failed project
\* lookup as job not found.
C10_StoreFailureDegrades ==
    \A s \in Slots :
        (Responded(s) /\ Valid(s) /\ "oracle" \notin req[s].failed)
        => /\ req[s].resp.http = 200
           /\ "dedup" \in req[s].failed => req[s].resp.route # "duplicate"
           /\ "pending" \in req[s].failed
                => req[s].pending_clarify = NoRecord /\ CountCalls(req[s], "oracle") = 1
           /\ (req[s].failed \cap {"project_reply", "project_yes"}) # {}
                => /\ req[s].resp.route = "clarify" /\ req[s].resp.confidence = "low"
                   /\ CountCalls(req[s], "create") = 0
           /\ "project_extract" \in req[s].failed
                => /\ req[s].project = NoProject
                   /\ req[s].oracle.jobNumber = req[s].job_number
                        => req[s].resp.projectRecordId = NONE
           /\ "project_reconcile" \in req[s].failed
                => req[s].resp.route = "clarify" /\ req[s].resp.confidence = "low"

\* every Record Store call of an oracle-path request failed and a decision came back
C10_Witness ==
    \E s \in Slots :
        /\ Responded(s) /\ req[s].resp.http = 200
        /\ req[s].failed = {"dedup", "pending", "project_extract", "active_jobs",
                            "project_reconcile", "create"}

\* the positions of a text's upper-cased form where the job-number pattern matches
\* with a prefix of the registry
AcceptedMatches(text) ==
    {i \in 1..Len(text) : /\ JobPatternAt(PyUpper(text), i)
                          /\ InList(SubSeq(PyUpper(text), i, i + 2), VALID_CLIENT_CODES)}

\* the job number `CCC NNN` of the match at position i
NormalisedAt(text, i) ==
    LET u == PyUpper(text)
        j == SpaceRunEnd(u, i + 3)
    IN SubSeq(u, i, i + 2) \o " " \o SubSeq(u, j, j + 2)

\* C11: extract_job_number returns the first match of the pattern whose prefix is a
\* valid client code, as `CCC NNN`, and nothing only when the text has no such match,
\* also when a match with an invalid prefix comes earlier in the text.
C11_FirstAcceptedMatch ==
    LET accepted == AcceptedMatches(extracted.text)
    IN extracted.job_number =
          IF accepted = {} THEN NONE ELSE NormalisedAt(extracted.text, MinOf(accepted))

\* first position at or after j that holds no word character (Len(u) + 1 if none)
RECURSIVE WordRunEnd(_, _)
WordRunEnd(u, j) == IF j <= Len(u) /\ IsWordChar(CharAt(u, j)) THEN WordRunEnd(u, j + 1) ELSE j

\* the maximal runs of word characters of a text
WordRuns(u) ==
    {SubSeq(u, i, WordRunEnd(u, i) - 1) :
        i \in {k \in 1..Len(u) : /\ IsWordChar(CharAt(u, k))
                                 /\ k = 1 \/ ~IsWordChar(CharAt(u, k - 1))}}

\* the valid client codes that are words of the text, in either case
StandaloneCodes(text) == Range(VALID_CLIENT_CODES) \cap WordRuns(PyUpper(text))

\* the codes of the client names that occur in the text, in either case
AliasCodes(text) ==
    {CLIENT_NAME_MAPPING[i][2] : i \in {k \in DOMAIN CLIENT_NAME_MAPPING :
                                           PyContains(PyLower(text), CLIENT_NAME_MAPPING[k][1])}}

\* C12: extract_client_code_from_content returns a valid code that stands in the text
\* as a word of its own whenever there is one, whatever client names the text also
\* contains; it returns the code of a client name only when no code stands alone,
\* and nothing when neither is found.
C12_StandaloneCodeWins ==
    LET codes == StandaloneCodes(extracted.text)
        names == AliasCodes(extracted.text)
    IN /\ codes # {} => extracted.client_code \in codes
       /\ (codes = {} /\ names # {}) => extracted.client_code \in names
       /\ (codes = {} /\ names = {}) => extracted.client_code = NONE

\* a text with a standalone code and a client name of another client, resolved to the
\* standalone code
C12_Witness ==
    /\ extracted.client_code \in StandaloneCodes(extracted.text)
    /\ \E c \in AliasCodes(extracted.text) :
          c # extracted.client_code /\ c \notin StandaloneCodes(extracted.text)

\* C13: an entry is `pending` or `resolved` only if its route is `clarify` or
\* `confirm`, and the entries a request has created are `pending` if their route is
\* `clarify` or `confirm` and `processed` otherwise.
C13_RouteStatusConsistent ==
    /\ \A i \in DOMAIN log :
          /\ log[i].Status \in {"pending", "resolved", "processed"}
          /\ log[i].Status \in {"pending", "resolved"} => log[i].Route \in {"clarify", "confirm"}
    /\ \A s \in Slots :
          Responded(s) =>
             \A i \in DOMAIN log :
                 i > Len(req[s].log0) =>
                    log[i].Status = IF log[i].Route \in {"clarify", "confirm"}
                                    THEN "pending" ELSE "processed"

\* a `confirm` entry has been resolved by a reply that created a `processed` entry
C13_Witness ==
    \E s \in Slots :
        /\ Responded(s) /\ Len(log) = 2 /\ Len(req[s].log0) = 1
        /\ log[1].Route = "confirm" /\ log[1].Status = "resolved"
        /\ log[2].Status = "processed"

FoundByLookup(rq) ==
    LET made(name) == name \in Range(rq.calls) /\ name \notin rq.failed
    IN ((IF made("project_reply") THEN {rq.reply_job_number} ELSE {})
        \cup (IF made("project_yes") THEN {rq.pending_clarify.JobNumber} ELSE {})
        \cup (IF made("project_extract") THEN {rq.job_number} ELSE {})
        \cup (IF made("project_reconcile") THEN {rq.oracle.jobNumber} ELSE {}))
       \cap ProjectJobs

\* Step 5 replaced the oracle's route, confidence and reason
Overridden(rq) == rq.routing.reason # rq.oracle.reason

\* C15: a decision carries the seven enrichment fields if and only if its job number
\* was found in Projects by a lookup of this request, with the values of the record
\* of that job number; otherwise it carries none of them, in particular when it was
\* overridden to `clarify` or has no job number.
C15_EnrichedIffFound ==
    \A s \in Slots :
        (Responded(s) /\ req[s].resp.http = 200)
        => LET resp == req[s].resp
               found == Truthy(resp.jobNumber) /\ resp.jobNumber \in FoundByLookup(req[s])
           IN /\ found => ENRICH_KEYS \subseteq resp.keys
              /\ ~found => (ENRICH_KEYS \cap resp.keys = {}
                            /\ resp.projectRecordId = NONE /\ resp.jobName = NONE)
              /\ found => \E p \in PROJECTS : /\ p.jobNumber = resp.jobNumber
                                              /\ resp.projectRecordId = p.recordId
                                              /\ resp.jobName = p.jobName
              /\ Overridden(req[s]) => (resp.route = "clarify" /\ ENRICH_KEYS \cap resp.keys = {})

\* a decision enriched from the record of the job the oracle picked, which is not the
\* one extracted from the message, and whose Step 2 lookup had failed; the log holds
\* the entry of a decision that was overridden
C15_Witness ==
    \E s \in Slots :
        /\ Responded(s) /\ ENRICH_KEYS \subseteq req[s].resp.keys
        /\ "project_reconcile" \in Range(req[s].calls)
        /\ "project_extract" \in req[s].failed
        /\ req[s].resp.jobNumber # req[s].job_number
        /\ \E i \in DOMAIN log : log[i].JobNumber = "TOW 999" /\ log[i].Route = "clarify"

\* the fields every routing decision is to carry
DECISION_KEYS == {"route", "confidence", "reason", "source", "clientCode"}

\* C16: every routing decision returned, by the duplicate short-circuit, by a Step 1
\* branch or by the oracle path, carries route, confidence, reason, source and
\* clientCode.
C16_DecisionFields ==
    \A s \in Slots :
        (Responded(s) /\ req[s].resp.http = 200) => DECISION_KEYS \subseteq req[s].resp.keys

\* the request at slot s went past Step 1 with an extracted job number that the
\* Step 2 lookup did not find in Projects
FreshUnknownJob(s) ==
    /\ Responded(s)
    /\ "project_extract" \in Range(req[s].calls)
    /\ req[s].job_number \notin ProjectJobs

\* what C17 says in either form: one oracle call, told the extracted job number and
\* that the job does not exist, after the Step 2 lookup and before any log write
OracleAskedOnce(s) ==
    /\ CountCalls(req[s], "oracle") = 1
    /\ req[s].context.job_number = req[s].job_number
    /\ req[s].context.job_exists = FALSE
    /\ \A i, j \in DOMAIN req[s].calls :
          (req[s].calls[i] = "oracle" /\ req[s].calls[j] = "create") => i < j

\* C17 as stated: a message that is no duplicate and is not answered in Step 1, with an
\* extracted job number that is not in Projects, reaches the oracle exactly once, with
\* that job number and 'job exists' false in its context, and exactly one log entry is
\* appended afterwards.
C17_UnknownJobReachesOracle ==
    \A s \in Slots :
        FreshUnknownJob(s)
        => /\ OracleAskedOnce(s)
           /\ CountCalls(req[s], "create") = 1
           /\ Len(log) = Len(req[s].log0) + 1

\* C17 amended: the same, with the one log entry appended when the oracle returned a
\* decision and none when the oracle call failed.
C17_UnknownJobReachesOracleLogsDecision ==
    \A s \in Slots :
        FreshUnknownJob(s)
        => /\ OracleAskedOnce(s)
           /\ "oracle" \notin req[s].failed
                => /\ CountCalls(req[s], "create") = 1
                   /\ Len(log) = Len(req[s].log0) + 1
                   /\ log[Len(log)].internetMessageId = req[s].msg.internetMessageId
           /\ "oracle" \in req[s].failed
                => (CountCalls(req[s], "create") = 0 /\ log = req[s].log0)

\* a fresh message with an unknown job number in its subject was classified by the
\* oracle and logged, on a log that already held an entry
C17_Witness ==
    \E s \in Slots :
        /\ FreshUnknownJob(s) /\ req[s].resp.http = 200
        /\ req[s].job_number = "TOW 999"
        /\ req[s].context.job_exists = FALSE
        /\ Len(req[s].log0) = 1 /\ Len(log) = 2

\* the request at slot s has answered, with a decision that is no duplicate, a message
\* of a conversation that had a pending entry when it arrived
AnsweredReply(s) ==
    /\ Responded(s) /\ Valid(s)
    /\ req[s].resp.http = 200 /\ req[s].resp.route # "duplicate"
    /\ Truthy(req[s].msg.conversationId)
    /\ PendingOn(req[s].log0, req[s].msg.conversationId) # {}

\* the bodies that, trimmed and case-folded, are a new-job directive
NewJobDirectives ==
    {t \in Contents : PyUpper(PyStrip(t)) \in {"TRIAGE", "TRIAGE.", "NEW JOB", "NEW"}}

NewJobDirective(content) == content \in NewJobDirectives

\* the bodies that are an affirmative
AffirmativeBodies == {t \in Contents : is_yes(t)}

\* the job number of a reply by subject and body: the subject's if it has one, else
\* the body's
ReplyJobOf ==
    [subject \in Subjects, content \in Contents |->
        IF extract_job_number(subject) # NONE THEN extract_job_number(subject)
        ELSE extract_job_number(content)]

ReplyJob(msg) == ReplyJobOf[msg.subjectLine, msg.emailContent]

\* the log lg0 after pending entry i has been resolved (its job number set to job
\* unless job is NONE) and one entry for msg has been appended
ResolvedAndLogged(lg0, i, job, msg, route, logged_job) ==
    Append([lg0 EXCEPT ![i] = [@ EXCEPT !.Status = "resolved",
                                        !.JobNumber = IF job = NONE THEN @ ELSE job]],
           [internetMessageId |-> msg.internetMessageId,
            conversationId |-> msg.conversationId,
            Route |-> route, Status |-> "processed", JobNumber |-> logged_job])

\* C18: in Step 1 the new-job directive is tested first, then a job number (subject,
\* then body), then the affirmatives.  A reply whose body is a new-job directive
\* returns `triage`, high confidence, no job number, resolves a pending entry of the
\* conversation and logs one `processed` entry, whatever its subject; a reply with
\* a job number is handled by the job-number branch even when its body is an
\* affirmative; an affirmative reply with neither is handled by the yes branch.
C18_BranchPrecedence ==
    \A s \in Slots :
        AnsweredReply(s)
        => LET rq == req[s]
               directive == NewJobDirective(rq.msg.emailContent)
               job == ReplyJob(rq.msg)
           IN /\ directive
                   => /\ rq.resp.route = "triage" /\ rq.resp.confidence = "high"
                      /\ rq.resp.jobNumber = NONE
                      /\ rq.calls = <<"pending", "create", "update">>
                           \/ rq.calls = <<"dedup", "pending", "create", "update">>
                      /\ \E i \in PendingOn(rq.log0, rq.msg.conversationId) :
                            log = ResolvedAndLogged(rq.log0, i, NONE, rq.msg, "triage", "")
              /\ (~directive /\ job # NONE)
                   => /\ CountCalls(rq, "project_reply") = 1
                      /\ Range(rq.calls) \cap {"project_yes", "project_extract", "oracle"} = {}
                      /\ rq.resp.reason \in {"Job number provided in clarify reply",
                                              "Job " \o job \o " not found in system"}
              /\ (~directive /\ job = NONE /\ rq.msg.emailContent \in AffirmativeBodies)
                   => /\ Range(rq.calls) \cap {"project_reply", "project_extract", "oracle"} = {}
                      /\ rq.resp.reason \in {"User confirmed suggested job",
                                              "Confirmation received but no job was suggested"}

\* a new-job reply whose subject names an existing job was answered `triage`, and the
\* pending entry it resolved stored a job number
C18_Witness ==
    \E s \in Slots :
        /\ AnsweredReply(s)
        /\ req[s].msg.emailContent = "new job" /\ req[s].msg.subjectLine = "re: one 010"
        /\ req[s].resp.route = "triage"
        /\ log[1].Status = "resolved" /\ log[1].JobNumber = "TOW 023"

\* C19: a reply that is no new-job directive and has a job number J that is in
\* Projects returns `update`, high confidence, job J; a pending entry of the
\* conversation becomes `resolved` with its job number set to J, and exactly one
\* entry (`update`, `processed`, J) is appended.
C19_ReplyWithValidJob ==
    \A s \in Slots :
        (/\ AnsweredReply(s)
         /\ ~NewJobDirective(req[s].msg.emailContent)
         /\ ReplyJob(req[s].msg) \in ProjectJobs)
        => LET rq == req[s]
               J == ReplyJob(rq.msg)
           IN /\ rq.resp.route = "update" /\ rq.resp.confidence = "high"
              /\ rq.resp.jobNumber = J
              /\ \E i \in PendingOn(rq.log0, rq.msg.conversationId) :
                    log = ResolvedAndLogged(rq.log0, i, J, rq.msg, "update", J)

\* such a reply has replaced the job number the pending entry stored by another one
C19_Witness ==
    \E s \in Slots :
        /\ AnsweredReply(s) /\ req[s].resp.route = "update"
        /\ req[s].log0[1].Status = "pending" /\ req[s].log0[1].JobNumber = "TOW 999"
        /\ log[1].Status = "resolved" /\ log[1].JobNumber = "ONE 010"
        /\ req[s].msg.emailContent = "Yes"

\* C20: a reply that is no new-job directive and has a job number that is not in
\* Projects returns `clarify` with low confidence; the log is left as it was (the
\* pending entry stays pending with its job number, nothing is appended) and the
\* oracle is not invoked.
C20_ReplyWithUnknownJob ==
    \A s \in Slots :
        (/\ AnsweredReply(s)
         /\ ~NewJobDirective(req[s].msg.emailContent)
         /\ ReplyJob(req[s].msg) # NONE
         /\ ReplyJob(req[s].msg) \notin ProjectJobs)
        => /\ req[s].resp.route = "clarify" /\ req[s].resp.confidence = "low"
           /\ log = req[s].log0
           /\ Range(req[s].calls) \cap {"oracle", "create", "update"} = {}

\* a reply "Yes" under a subject with an unknown job number left the pending entry,
\* which stores a job that exists, pending
C20_Witness ==
    \E s \in Slots :
        /\ AnsweredReply(s) /\ req[s].resp.route = "clarify"
        /\ req[s].msg.subjectLine = "Re: TOW 999" /\ req[s].msg.emailContent = "Yes"
        /\ log = req[s].log0
        /\ \E i \in PendingOn(log, req[s].msg.conversationId) : log[i].JobNumber = "TOW 023"

\* the pending entry, as it was when the request at slot s arrived, that the pending
\* lookup of that request returned
FoundPending(s) == req[s].log0[req[s].pending_clarify.id]

\* the request at slot s answered a reply that is no new-job directive, has no job
\* number and is an affirmative
AffirmativeReply(s) ==
    /\ AnsweredReply(s)
    /\ req[s].pending_clarify.id \in DOMAIN req[s].log0
    /\ ~NewJobDirective(req[s].msg.emailContent)
    /\ ReplyJob(req[s].msg) = NONE
    /\ req[s].msg.emailContent \in AffirmativeBodies

\* C21: an affirmative reply with no job number, on a conversation that has a pending
\* entry which stores no job number, returns `clarify` with low confidence; the log
\* is as it was (the entry stays pending, nothing is appended) and no oracle call,
\* project lookup or store write is made.
C21_YesWithNothingToConfirm ==
    \A s \in Slots :
        (/\ AffirmativeReply(s)
         /\ \E i \in PendingOn(req[s].log0, req[s].msg.conversationId) :
               req[s].log0[i].JobNumber = "")
        => /\ req[s].resp.route = "clarify" /\ req[s].resp.confidence = "low"
           /\ log = req[s].log0
           /\ Range(req[s].calls) \subseteq {"dedup", "pending"}

\* the message of the request at slot s was not in the log when it arrived
NotLogged(s) ==
    ~(/\ Truthy(req[s].msg.internetMessageId)
      /\ \E i \in DOMAIN req[s].log0 :
            req[s].log0[i].internetMessageId = req[s].msg.internetMessageId)

\* the request at slot s has ended for a reply, on a conversation with a pending
\* entry, that is no new-job directive, has no job number and is no affirmative
AmbiguousReply(s) ==
    /\ Responded(s) /\ Valid(s) /\ NotLogged(s)
    /\ Truthy(req[s].msg.conversationId)
    /\ PendingOn(req[s].log0, req[s].msg.conversationId) # {}
    /\ ~NewJobDirective(req[s].msg.emailContent)
    /\ ReplyJob(req[s].msg) = NONE
    /\ req[s].msg.emailContent \notin AffirmativeBodies

\* the entries that were in the log when the request at slot s arrived are as they were
OldEntriesUntouched(s) == SubSeq(log, 1, Len(req[s].log0)) = req[s].log0

\* one entry for the message of the request at slot s has been appended, pending if
\* the decision is `clarify` or `confirm` and processed otherwise
OneEntryForDecision(s) ==
    /\ Len(log) = Len(req[s].log0) + 1
    /\ log[Len(log)].internetMessageId = req[s].msg.internetMessageId
    /\ log[Len(log)].conversationId = req[s].msg.conversationId
    /\ log[Len(log)].Route = req[s].resp.route
    /\ log[Len(log)].Status =
          IF req[s].resp.route \in {"clarify", "confirm"} THEN "pending" ELSE "processed"

\* C22 as stated: such a reply is handled as a new message: no Step 1 write, the
\* oracle is called once, the pending entries are left as they were, and exactly one
\* entry is appended, pending if the oracle path ends in `clarify` or `confirm` and
\* processed otherwise.
C22_AmbiguousReplyFallsThrough ==
    \A s \in Slots :
        AmbiguousReply(s)
        => /\ CountCalls(req[s], "oracle") = 1
           /\ CountCalls(req[s], "update") = 0
           /\ OldEntriesUntouched(s)
           /\ OneEntryForDecision(s)

\* C22 amended: the same, with the one entry appended when the oracle returned a
\* decision and none when the oracle call failed.
C22_AmbiguousReplyFallsThroughLogsDecision ==
    \A s \in Slots :
        AmbiguousReply(s)
        => /\ CountCalls(req[s], "oracle") = 1
           /\ CountCalls(req[s], "update") = 0
           /\ OldEntriesUntouched(s)
           /\ "oracle" \notin req[s].failed
                => (req[s].resp.http = 200 /\ OneEntryForDecision(s))
           /\ "oracle" \in req[s].failed
                => (req[s].resp.http = 500 /\ log = req[s].log0)

\* "thanks" on a conversation with a pending entry went to the oracle, which answered
\* `update`: a processed entry was appended and the pending entry is still pending
C22_Witness ==
    \E s \in Slots :
        /\ AmbiguousReply(s) /\ req[s].resp.route = "update"
        /\ Len(log) = 2 /\ log[1].Status = "pending" /\ log[2].Status = "processed"
        /\ log[1].conversationId = log[2].conversationId

\* the request at slot s returned `update` or `triage` from a Step 1 branch
HandledInStep1(s) ==
    /\ Responded(s) /\ req[s].resp.http = 200
    /\ req[s].resp.route \in {"update", "triage"}
    /\ req[s].pending_clarify # NoRecord
    /\ "oracle" \notin Range(req[s].calls)

\* C23: when a Step 1 branch returns `update` or `triage`, the pending entry that was
\* found is `resolved` and a `processed` entry for the reply has been appended, also
\* when store writes may fail.
C23_ResolutionAccompaniesReply ==
    \A s \in Slots :
        HandledInStep1(s)
        => /\ log[req[s].pending_clarify.id].Status = "resolved"
           /\ \E i \in DOMAIN log :
                 /\ i > Len(req[s].log0)
                 /\ log[i].Status = "processed"
                 /\ log[i].Route = req[s].resp.route
                 /\ log[i].internetMessageId = req[s].msg.internetMessageId
                 /\ log[i].conversationId = req[s].msg.conversationId

\* the client code C24 states, by subject and body: the prefix of the job number if one
\* was extracted and is in Projects, else what client-code extraction gives for the
\* subject, and if that is nothing, for the body
StatedClientCodeOf ==
    [subject \in Subjects, content \in Contents |->
        LET job == ReplyJobOf[subject, content]
        IN IF job # NONE /\ job \in ProjectJobs THEN SubSeq(job, 1, 3)
           ELSE IF extract_client_code_from_content(subject) # NONE
                THEN extract_client_code_from_content(subject)
                ELSE extract_client_code_from_content(content)]

\* C24: the client code attached to an oracle-path decision, told to the oracle and
\* used to fetch the active jobs, is the job number's prefix only when a job number
\* was extracted and exists in Projects; otherwise it is the client code extracted
\* from the subject, or else from the body.
C24_ClientCodeDerivation ==
    \A s \in Slots :
        (Responded(s) /\ req[s].resp.http = 200 /\ "oracle" \in Range(req[s].calls))
        => LET stated == StatedClientCodeOf[req[s].msg.subjectLine, req[s].msg.emailContent]
           IN /\ req[s].resp.clientCode = stated
              /\ req[s].context.client_code = (IF stated = NONE THEN "Unknown" ELSE stated)
              /\ ("active_jobs" \in Range(req[s].calls)) <=> (stated # NONE)

\* the Projects lookups by job number the request rq made
ProjectLookups(rq) ==
    {i \in DOMAIN rq.calls :
        rq.calls[i] \in {"project_reply", "project_yes", "project_extract", "project_reconcile"}}

\* C25: within one request the oracle is called at most once and no store call is
\* made twice, a failed one included; on the oracle path Projects is queried by job
\* number at most twice, once for the extracted job number and once for an oracle job
\* number that differs from it, and exactly once when the oracle's job number is an
\* extracted one that was found.
C25_SingleAttempt ==
    \A s \in Slots :
        Responded(s)
        => LET rq == req[s]
           IN /\ CountCalls(rq, "oracle") <= 1
              /\ \A i, j \in DOMAIN rq.calls : rq.calls[i] = rq.calls[j] => i = j
              /\ "oracle" \in Range(rq.calls)
                   => /\ Cardinality(ProjectLookups(rq)) <= 2
                      /\ {rq.calls[i] : i \in ProjectLookups(rq)}
                            \subseteq {"project_extract", "project_reconcile"}
                      /\ "project_extract" \in Range(rq.calls) <=> Truthy(rq.job_number)
                      /\ "project_reconcile" \in Range(rq.calls)
                            => (Truthy(rq.oracle.jobNumber) /\ rq.oracle.jobNumber # rq.job_number)
                      /\ (rq.project # NoProject /\ rq.oracle.jobNumber = rq.job_number)
                            => Cardinality(ProjectLookups(rq)) = 1

\* the oracle returned the job number Step 2 had found: one lookup, and an enriched
\* decision, in a request whose dedup and pending lookups had failed
C25_Witness ==
    \E s \in Slots :
        /\ Responded(s) /\ req[s].resp.http = 200
        /\ req[s].project # NoProject /\ req[s].oracle.jobNumber = req[s].job_number
        /\ Cardinality(ProjectLookups(req[s])) = 1
        /\ ENRICH_KEYS \subseteq req[s].resp.keys
        /\ {"dedup", "pending"} \subseteq req[s].failed

\* the entry the request at slot s found pending was pending, or not yet there, when
\* the request arrived
ArrivedBeforeResolution(s) ==
    req[s].pending_clarify.id \in DOMAIN req[s].log0
        => req[s].log0[req[s].pending_clarify.id].Status = "pending"

\* C26 as stated: of two replies in flight at the same time that read the same pending
\* entry, at most one returns `update` or `triage` from Step 1 and appends a
\* `processed` entry for it.
C26_ResolvedByAtMostOne ==
    \A s, t \in Slots :
        (s # t /\ HandledInStep1(s) /\ HandledInStep1(t))
        => req[s].pending_clarify.id # req[t].pending_clarify.id

\* C26 amended: a reply returns `update` or `triage` from Step 1 for a pending entry
\* only if it arrived before that entry was resolved; replies that overlap may both
\* do so, each appending its own `processed` entry.
C26_ResolvedOnlyByRepliesInFlight ==
    \A s \in Slots :
        HandledInStep1(s)
        => /\ ArrivedBeforeResolution(s)
           /\ log[req[s].pending_clarify.id].Status = "resolved"
           /\ \E i \in DOMAIN log :
                 /\ i > Len(req[s].log0)
                 /\ log[i].Status = "processed" /\ log[i].Route = req[s].resp.route

\* two overlapping replies have both resolved the same pending entry, and each has
\* appended its `processed` entry
C26_Witness ==
    /\ HandledInStep1(1) /\ HandledInStep1(2)
    /\ req[1].pending_clarify.id = req[2].pending_clarify.id
    /\ Len(log) = 3
    /\ log[2].Status = "processed" /\ log[3].Status = "processed"

\* C27 as stated: under any interleaving, no step changes the stored job number of an
\* entry that is `resolved`.
C27_ResolvedJobNeverModified ==
    [][\A i \in DOMAIN log :
          log[i].Status = "resolved" => log'[i].JobNumber = log[i].JobNumber]_vars

\* C27 amended: the stored job number of a `resolved` entry changes only in the
\* store write of a job-number reply that had found the entry pending and arrived
\* before it was resolved.
C27_ResolvedJobModifiedOnlyByRepliesInFlight ==
    [][\A i \in DOMAIN log :
          (log[i].Status = "resolved" /\ log'[i].JobNumber # log[i].JobNumber)
          => \E s \in Slots :
                /\ req[s].pc = "reply_update" /\ req'[s].pc = "done"
                /\ req[s].pending_clarify.id = i
                /\ ArrivedBeforeResolution(s)
                /\ log'[i].JobNumber = req[s].reply_job_number]_vars

\* two overlapping replies named different existing jobs for the same pending entry:
\* the entry was resolved with one and now stores the other
C27_Witness ==
    /\ HandledInStep1(1) /\ HandledInStep1(2)
    /\ req[1].pending_clarify.id = req[2].pending_clarify.id
    /\ req[1].reply_job_number = "TOW 023" /\ req[2].reply_job_number = "ONE 010"
    /\ log[req[1].pending_clarify.id].JobNumber = "ONE 010"
    /\ \E i \in DOMAIN log : log[i].Route = "update" /\ log[i].JobNumber = "TOW 023"

\* the entries of lg that wait for an answer about a job number that is not in
\* Projects, as the entry of an overridden decision does
PendingOnUnknownJob(lg, c) ==
    {i \in PendingOn(lg, c) : Truthy(lg[i].JobNumber) /\ lg[i].JobNumber \notin ProjectJobs}

\* C28: the entry logged for a decision the reconciliation overrode is pending and
\* stores the oracle's job number, which is not in Projects.  While a conversation
\* has such an entry, every affirmative reply on it that carries no job number and
\* is no new-job directive returns `clarify` with low confidence and leaves the
\* entry pending; a request after which the entry is resolved was a new-job
\* directive or carried a job number that is in Projects.
C28_OverrideEntryNeverConfirmed ==
    \A s \in Slots :
        /\ (Responded(s) /\ req[s].resp.http = 200 /\ Overridden(req[s]))
           => /\ Len(log) = Len(req[s].log0) + 1
              /\ log[Len(log)].Status = "pending"
              /\ log[Len(log)].JobNumber = req[s].oracle.jobNumber
              /\ log[Len(log)].JobNumber \notin ProjectJobs
        /\ Responded(s)
           => \A i \in PendingOnUnknownJob(req[s].log0, req[s].msg.conversationId) :
                /\ AffirmativeReply(s)
                   => /\ req[s].resp.route = "clarify" /\ req[s].resp.confidence = "low"
                      /\ log[i] = req[s].log0[i]
                /\ log[i].Status = "resolved"
                   => \/ NewJobDirective(req[s].msg.emailContent)
                      \/ ReplyJob(req[s].msg) \in ProjectJobs

\* the entries of lg logged as pending for a request without conversation identifier
PendingWithoutConversation(lg) ==
    {i \in DOMAIN lg : lg[i].conversationId = "" /\ lg[i].Status = "pending"}

\* C29: a pending entry stored with an empty conversationId is never the entry a
\* request's pending lookup returns, and no step of any request changes it: it stays
\* `pending` whatever requests follow.
C29_NoConversationNeverMatched ==
    [][/\ \A i \in PendingWithoutConversation(log) : i \in DOMAIN log' /\ log'[i] = log[i]
       /\ \A s \in Slots :
             req'[s].pending_clarify.id \notin PendingWithoutConversation(req'[s].log0)]_vars

\* a new-job directive on c1 was answered after its pending lookup, while the log
\* held a pending entry without conversation identifier, which is still pending
C29_Witness ==
    \E s \in Slots :
        /\ Responded(s) /\ req[s].resp.http = 200
        /\ req[s].msg.conversationId = "c1"
        /\ NewJobDirective(req[s].msg.emailContent)
        /\ "pending" \in Range(req[s].calls)
        /\ \E i \in PendingWithoutConversation(req[s].log0) : log[i].Status = "pending"

====
